---- MODULE Spec2Model ----
(***************************************************************************)
(* MicrophoneVisualizer: a React panel that owns one WaveSurfer instance   *)
(* with a RecordPlugin, a recording flag, a colour theme and (in the       *)
(* richer variant) a waveform style.                                       *)
(*                                                                         *)
(* Two variants are modelled, selected by `rich`:                          *)
(*   rich = TRUE   src/src/components/MicrophoneVisualizer.tsx             *)
(*   rich = FALSE  src/unnamed/part_000 (no waveform styles)               *)
(*                                                                         *)
(* React state is modelled twice: isRecording/currentTheme/currentWaveform *)
(* are the values last passed to the setters; `rendered` are the values of *)
(* the last committed render, i.e. the ones the closures of the click      *)
(* handlers and effects see.  A setter called in a click handler is        *)
(* rendered, and its effects run, before anything else happens, so the     *)
(* click actions include that render.  A setter called in a promise        *)
(* continuation schedules a render (Render) that may come at once or after *)
(* further continuations.  The user clicks only on a committed render, and *)
(* never between the end of stopRecording and the then-callback chained on *)
(* it (a microtask).                                                       *)
(***************************************************************************)
EXTENDS Integers, Sequences, FiniteSets, Bags

\* ---------------------------------------------------------------- bounds
MaxClicks == 3        \* clicks on the panel's buttons in one behaviour
MaxCalls == 2         \* plugin calls issued by clicks that may be in flight

\* ------------------------------------------------------------- constants
Undefined == -1       \* a property the object literal does not set

Themes == {"classic", "neon", "sunset"}

Styles == {"bars", "line", "points", "rounded"}

visualizerThemes ==
  [t \in Themes |->
     CASE t = "classic" -> [waveColor |-> "#9b87f5", progressColor |-> "#7E69AB",
                            cursorColor |-> "transparent"]
       [] t = "neon"    -> [waveColor |-> "#33C3F0", progressColor |-> "#0EA5E9",
                            cursorColor |-> "transparent"]
       [] t = "sunset"  -> [waveColor |-> "#F97316", progressColor |-> "#D946EF",
                            cursorColor |-> "transparent"]]

waveformTypes ==
  [s \in Styles |->
     CASE s = "bars"    -> [barWidth |-> 2, barGap |-> 3, barRadius |-> 3,
                            wave |-> "false"]
       [] s = "line"    -> [barWidth |-> 0, barGap |-> Undefined,
                            barRadius |-> Undefined, wave |-> "true"]
       [] s = "points"  -> [barWidth |-> 1, barGap |-> 4, barRadius |-> 50,
                            wave |-> "false"]
       [] s = "rounded" -> [barWidth |-> 3, barGap |-> 2, barRadius |-> 30,
                            wave |-> "false"]]

\* the shape the simpler variant passes to WaveSurfer.create
basicShape ==
  [barWidth |-> 2, barGap |-> 3, barRadius |-> 3, wave |-> "undefined"]

\* toasts
RecordingStarted == [title |-> "Recording started", variant |-> "default"]
PermissionDenied == [title |-> "Permission denied", variant |-> "destructive"]
RecordingStopped == [title |-> "Recording stopped", variant |-> "default"]

\* ----------------------------------------------------------------- state
InstIds == 1 .. (MaxClicks + 2)

NoInst ==
  [status |-> "none", destroys |-> 0, waveColor |-> "", progressColor |-> "",
   cursorColor |-> "", shape |-> basicShape, capturing |-> FALSE]

VARIABLES
  rich,             \* which variant of the component runs
  phase,            \* "init" (not yet mounted), "mounted", "unmounted"
  isRecording,      \* useState(false): value last set
  currentTheme,     \* useState('classic'): value last set
  currentWaveform,  \* useState('bars'): value last set (rich variant)
  rendered,         \* the state committed by the last render
  wavesurferRef,    \* wavesurferRef.current: an instance id, 0 for null
  recordRef,        \* recordRef.current: the instance whose plugin it is, 0 for null
  inst,             \* every WaveSurfer instance ever created, with its plugin
  calls,            \* bag of plugin calls in flight and their continuations
  clicks,           \* number of button clicks so far
  last,             \* history: the step just taken and the toasts it showed
  hist              \* history: bookkeeping for the style-change claims

vars == <<rich, phase, isRecording, currentTheme, currentWaveform, rendered,
          wavesurferRef, recordRef, inst, calls, clicks, last, hist>>

State ==
  [isRecording |-> isRecording, currentTheme |-> currentTheme,
   currentWaveform |-> currentWaveform]

Step(op, i, arg, toasts, uncaught) ==
  [op |-> op, inst |-> i, arg |-> arg, toasts |-> toasts, uncaught |-> uncaught]

InFlight == BagToSet(calls)

Issue(c) == calls (+) SetToBag({c})

Settle(c) == calls (-) SetToBag({c})

\* calls issued by click handlers and not yet settled, with multiplicity
ClickCalls ==
  BagCardinality([c \in {d \in InFlight : d.kind # "restart"} |-> calls[c]])

LiveInsts == {i \in InstIds : inst[i].status = "live"}

NextId(w) == CHOOSE i \in InstIds : w[i].status = "none" /\
                                    \A j \in InstIds : w[j].status = "none" => i <= j

\* ------------------------------------------------- the library, as used
\* WaveSurfer.destroy(): the instance and its plugin stop
destroyNever(w, i) == w

destroy(w, i) ==
  IF i = 0 THEN w
  ELSE [w EXCEPT ![i] = [NoInst EXCEPT !.status = "destroyed",
                                      !.destroys = w[i].destroys + 1]]

\* WaveSurfer.create({...theme colours, ...shape}) + registerPlugin
createClassic(w, i, theme, shape) ==
  [w EXCEPT ![i] = [status |-> "live", destroys |-> 0,
                    waveColor |-> visualizerThemes["classic"].waveColor,
                    progressColor |-> visualizerThemes["classic"].progressColor,
                    cursorColor |-> visualizerThemes["classic"].cursorColor,
                    shape |-> shape, capturing |-> FALSE]]

create(w, i, theme, shape) ==
  [w EXCEPT ![i] = [status |-> "live", destroys |-> 0,
                    waveColor |-> visualizerThemes[theme].waveColor,
                    progressColor |-> visualizerThemes[theme].progressColor,
                    cursorColor |-> visualizerThemes[theme].cursorColor,
                    shape |-> shape, capturing |-> FALSE]]

\* wavesurfer.setOptions({waveColor, progressColor})
setOptions(w, i, theme) ==
  [w EXCEPT ![i].waveColor = visualizerThemes[theme].waveColor,
            ![i].progressColor = visualizerThemes[theme].progressColor]

Init ==
  /\ rich \in BOOLEAN
  /\ phase = "init"
  /\ isRecording = FALSE
  /\ currentTheme = "classic"
  /\ currentWaveform = "bars"
  /\ rendered = [isRecording |-> FALSE, currentTheme |-> "classic",
                 currentWaveform |-> "bars"]
  /\ wavesurferRef = 0
  /\ recordRef = 0
  /\ inst = [i \in InstIds |-> NoInst]
  /\ calls = EmptyBag
  /\ clicks = 0
  /\ last = Step("init", 0, "none", <<>>, FALSE)
  /\ hist = [resumeDue |-> FALSE, requested |-> {}]

\* --------------------------------------------------- effects of the panel
\* R is [inst, ws, rr, restart]: the instances, the two refs, and whether the
\* effect issued recordRef.current.startRecording()

\* initializeWaveSurfer, with the closure's currentTheme/currentWaveform/isRecording
initializeWaveSurferFixedShape(R, theme, waveform, rec) ==
  LET w1 == IF R.ws # 0 THEN destroy(R.inst, R.ws) ELSE R.inst
      id == NextId(w1)
  IN  [inst |-> create(w1, id, theme, waveformTypes["bars"]),
       ws |-> id, rr |-> id, restart |-> rec]

initializeWaveSurfer(R, theme, waveform, rec) ==
  LET w1 == IF R.ws # 0 THEN destroy(R.inst, R.ws) ELSE R.inst
      id == NextId(w1)
  IN  [inst |-> create(w1, id, theme, waveformTypes[waveform]),
       ws |-> id, rr |-> id, restart |-> rec]

\* the mount effect of the simpler variant
mountEffectBasic(R, theme) ==
  LET id == NextId(R.inst)
  IN  [inst |-> create(R.inst, id, theme, basicShape),
       ws |-> id, rr |-> id, restart |-> FALSE]

\* the cleanup returned by the instance effect (both variants)
effectCleanup(R) ==
  IF R.ws # 0 THEN [R EXCEPT !.inst = destroy(R.inst, R.ws)] ELSE R

\* useEffect(..., [currentTheme])
themeEffectRecreates(R, theme) ==
  initializeWaveSurfer(R, theme, currentWaveform, FALSE)

themeEffectStopsCapture(R, theme) ==
  IF R.ws = 0 THEN R
  ELSE [R EXCEPT !.inst = [setOptions(R.inst, R.ws, theme) EXCEPT ![R.ws].capturing = FALSE]]

themeEffect(R, theme) ==
  IF R.ws = 0 THEN R
  ELSE [R EXCEPT !.inst = setOptions(R.inst, R.ws, theme)]

Refs == [inst |-> inst, ws |-> wavesurferRef, rr |-> recordRef, restart |-> FALSE]

RestartCall(i) == [kind |-> "restart", inst |-> i, type |-> "none", phase |-> "pending"]

Commit(R) ==
  /\ inst' = R.inst
  /\ wavesurferRef' = R.ws
  /\ recordRef' = R.rr
  /\ calls' = IF R.restart THEN Issue(RestartCall(R.rr)) ELSE calls

Realised(req, R) ==
  {s \in req : R.ws = 0 \/ R.inst[R.ws].status # "live"
                \/ R.inst[R.ws].shape # waveformTypes[s]}

\* first render and the effects it runs
Mount ==
  /\ phase = "init"
  /\ phase' = "mounted"
  /\ LET R1 == IF rich
               THEN initializeWaveSurfer(Refs, currentTheme, currentWaveform, isRecording)
               ELSE mountEffectBasic(Refs, currentTheme)
         R2 == themeEffect(R1, currentTheme)
     IN  Commit(R2)
  /\ rendered' = State
  /\ last' = Step("mount", wavesurferRef', "none", <<>>, FALSE)
  /\ UNCHANGED <<rich, isRecording, currentTheme, currentWaveform, clicks, hist>>

\* useEffect(..., [currentWaveform]) on a re-render: cleanup, then the effect
waveformEffect(R, changed, theme, waveform, rec) ==
  IF changed THEN initializeWaveSurfer(effectCleanup(R), theme, waveform, rec)
  ELSE R

\* the re-render scheduled by a promise continuation (setIsRecording or
\* setCurrentWaveform), and the effects whose dependencies changed
Render ==
  /\ phase = "mounted"
  /\ rendered # State
  /\ LET waveChanged == rich /\ rendered.currentWaveform # currentWaveform
         R1 == waveformEffect(Refs, waveChanged, currentTheme, currentWaveform,
                              isRecording)
     IN  /\ Commit(R1)
         /\ last' = Step(IF waveChanged THEN "renderStyle" ELSE "render",
                         R1.ws, "none", <<>>, FALSE)
         /\ hist' = [resumeDue |-> IF waveChanged THEN TRUE ELSE hist.resumeDue,
                     requested |-> Realised(hist.requested, R1)]
  /\ rendered' = State
  /\ UNCHANGED <<rich, phase, isRecording, currentTheme, currentWaveform, clicks>>

\* a then-callback waits in the microtask queue: it runs before any click
MicrotaskQueued == \E c \in InFlight : c.phase = "then"

\* the component is removed: the instance effect's cleanup runs
Unmount ==
  /\ phase = "mounted"
  /\ ~MicrotaskQueued
  /\ phase' = "unmounted"
  /\ LET R1 == effectCleanup(Refs) IN Commit(R1)
  /\ last' = Step("unmount", wavesurferRef, "none", <<>>, FALSE)
  /\ UNCHANGED <<rich, isRecording, currentTheme, currentWaveform, rendered,
                 clicks, hist>>

CanClick == phase = "mounted" /\ rendered = State /\ ~MicrotaskQueued

\* onClick={() => setCurrentTheme(theme)}, its render and the theme effect
ClickTheme(theme) ==
  /\ CanClick
  /\ clicks < MaxClicks
  /\ clicks' = clicks + 1
  /\ currentTheme' = theme
  /\ rendered' = [rendered EXCEPT !.currentTheme = theme]
  /\ LET R1 == IF theme # rendered.currentTheme THEN themeEffect(Refs, theme)
               ELSE Refs
     IN  Commit(R1)
  /\ last' = Step("clickTheme", wavesurferRef, theme, <<>>, FALSE)
  /\ UNCHANGED <<rich, phase, isRecording, currentWaveform, hist>>

\* ------------------------------------------------------ recording handlers
Call(kind, i, type) == [kind |-> kind, inst |-> i, type |-> type, phase |-> "pending"]

\* startRecording, after `await recordRef.current.startRecording()` resolved
startResolvedNoState(rec) ==
  [isRecording |-> rec, toasts |-> <<RecordingStarted>>]

startResolved(rec) ==
  [isRecording |-> TRUE, toasts |-> <<RecordingStarted>>]

\* startRecording, the catch block
startRejectedFlips(rec) ==
  [isRecording |-> TRUE, toasts |-> <<PermissionDenied>>, uncaught |-> FALSE]

startRejected(rec) ==
  [isRecording |-> rec, toasts |-> <<PermissionDenied>>, uncaught |-> FALSE]

\* stopRecording, after `await recordRef.current.stopRecording()`
stopResolvedKeeps(rec) ==
  [isRecording |-> rec, toasts |-> <<RecordingStopped>>]

stopResolved(rec) ==
  [isRecording |-> FALSE, toasts |-> <<RecordingStopped>>]

\* handleWaveformChange: which branch runs, given the closure's isRecording
handleWaveformChangeNoWait(rec, type) ==
  [stop |-> rec, set |-> TRUE]

handleWaveformChange(rec, type) ==
  IF rec THEN [stop |-> TRUE, set |-> FALSE] ELSE [stop |-> FALSE, set |-> TRUE]

\* onClick={isRecording ? stopRecording : startRecording}: the plugin call is issued
ClickRecord ==
  /\ CanClick
  /\ clicks < MaxClicks
  /\ ClickCalls < MaxCalls
  /\ calls' = Issue(Call(IF rendered.isRecording THEN "stop" ELSE "start",
                         recordRef, "none"))
  /\ clicks' = clicks + 1
  /\ last' = Step(IF rendered.isRecording THEN "clickStop" ELSE "clickStart",
                  recordRef, "none", <<>>, FALSE)
  /\ hist' = [hist EXCEPT !.resumeDue = FALSE]
  /\ UNCHANGED <<rich, phase, isRecording, currentTheme, currentWaveform, rendered,
                 wavesurferRef, recordRef, inst>>

\* onClick={() => handleWaveformChange(type)}; when the handler calls
\* setCurrentWaveform itself, also the render and the instance effect
ClickStyle(type) ==
  /\ rich
  /\ CanClick
  /\ clicks < MaxClicks
  /\ LET h == handleWaveformChange(rendered.isRecording, type)
         waveChanged == h.set /\ type # rendered.currentWaveform
         R1 == waveformEffect(Refs, waveChanged, currentTheme, type, isRecording)
     IN  /\ h.stop => ClickCalls < MaxCalls
         /\ inst' = R1.inst
         /\ wavesurferRef' = R1.ws
         /\ recordRef' = R1.rr
         /\ calls' = (IF h.stop THEN Issue(Call("styleStop", recordRef, type))
                      ELSE calls)
                     (+) (IF R1.restart THEN SetToBag({RestartCall(R1.rr)})
                          ELSE EmptyBag)
         /\ currentWaveform' = IF h.set THEN type ELSE currentWaveform
         /\ rendered' = IF h.set THEN [rendered EXCEPT !.currentWaveform = type]
                        ELSE rendered
         /\ last' = Step(IF h.stop THEN "clickStyleStop" ELSE "clickStyle",
                         recordRef, type, <<>>, FALSE)
         /\ hist' = [resumeDue |-> FALSE,
                     requested |-> Realised(hist.requested \cup {type}, R1)]
  /\ clicks' = clicks + 1
  /\ UNCHANGED <<rich, phase, isRecording, currentTheme>>

\* the plugin's startRecording resolves (access granted); startRecording continues
StartGranted(c) ==
  /\ c.kind = "start"
  /\ c.phase = "pending"
  /\ LET r == startResolved(isRecording)
     IN  /\ isRecording' = r.isRecording
         /\ last' = Step("startGranted", c.inst, "none", r.toasts, FALSE)
  /\ inst' = [inst EXCEPT ![c.inst].capturing = TRUE]
  /\ calls' = Settle(c)
  /\ UNCHANGED <<rich, phase, currentTheme, currentWaveform, rendered, wavesurferRef,
                 recordRef, clicks, hist>>

\* the plugin's startRecording rejects (access denied); the catch block runs
StartDenied(c) ==
  /\ c.kind = "start"
  /\ c.phase = "pending"
  /\ LET r == startRejected(isRecording)
     IN  /\ isRecording' = r.isRecording
         /\ last' = Step("startDenied", c.inst, "none", r.toasts, r.uncaught)
  /\ calls' = Settle(c)
  /\ UNCHANGED <<rich, phase, currentTheme, currentWaveform, rendered, wavesurferRef,
                 recordRef, inst, clicks, hist>>

\* the plugin's stopRecording completes; stopRecording continues
StopDone(c) ==
  /\ c.kind \in {"stop", "styleStop"}
  /\ c.phase = "pending"
  /\ LET r == stopResolved(isRecording)
     IN  /\ isRecording' = r.isRecording
         /\ last' = Step("stopDone", c.inst, c.kind, r.toasts, FALSE)
  /\ inst' = [inst EXCEPT ![c.inst].capturing = FALSE]
  /\ calls' = IF c.kind = "stop" THEN Settle(c)
              ELSE Settle(c) (+) SetToBag({[c EXCEPT !.phase = "then"]})
  /\ UNCHANGED <<rich, phase, currentTheme, currentWaveform, rendered, wavesurferRef,
                 recordRef, clicks, hist>>

\* stopRecording().then(() => setCurrentWaveform(type))
ThenSetWaveform(c) ==
  /\ c.kind = "styleStop"
  /\ c.phase = "then"
  /\ currentWaveform' = c.type
  /\ calls' = Settle(c)
  /\ last' = Step("thenSetWaveform", c.inst, c.type, <<>>, FALSE)
  /\ UNCHANGED <<rich, phase, isRecording, currentTheme, rendered, wavesurferRef,
                 recordRef, inst, clicks, hist>>

\* the restart issued by initializeWaveSurfer resolves
RestartGranted(c) ==
  /\ c.kind = "restart"
  /\ inst' = [inst EXCEPT ![c.inst].capturing = TRUE]
  /\ calls' = Settle(c)
  /\ last' = Step("restartGranted", c.inst, "none", <<>>, FALSE)
  /\ UNCHANGED <<rich, phase, isRecording, currentTheme, currentWaveform, rendered,
                 wavesurferRef, recordRef, clicks, hist>>

\* the .catch handler of the restart in initializeWaveSurfer
restartRejectedKeeps(rec) ==
  [isRecording |-> rec, toasts |-> <<>>]

restartRejected(rec) ==
  [isRecording |-> FALSE, toasts |-> <<>>]

\* the restart issued by initializeWaveSurfer rejects: its .catch runs
RestartDenied(c) ==
  /\ c.kind = "restart"
  /\ LET r == restartRejected(isRecording)
     IN  /\ isRecording' = r.isRecording
         /\ last' = Step("restartDenied", c.inst, "none", r.toasts, FALSE)
  /\ calls' = Settle(c)
  /\ hist' = [hist EXCEPT !.resumeDue = FALSE]
  /\ UNCHANGED <<rich, phase, currentTheme, currentWaveform, rendered, wavesurferRef,
                 recordRef, inst, clicks>>

\* what the page does on its own: promise continuations and renders
SystemStep ==
  \/ Mount
  \/ Render
  \/ \E c \in InFlight : StartGranted(c)
  \/ \E c \in InFlight : StartDenied(c)
  \/ \E c \in InFlight : StopDone(c)
  \/ \E c \in InFlight : ThenSetWaveform(c)
  \/ \E c \in InFlight : RestartGranted(c)
  \/ \E c \in InFlight : RestartDenied(c)

\* what the user does
UserStep ==
  \/ ClickRecord
  \/ \E t \in Themes : ClickTheme(t)
  \/ \E type \in Styles : ClickStyle(type)
  \/ Unmount

Next == SystemStep \/ UserStep

Spec == Init /\ [][Next]_vars

\* what no user and no permission prompt can hold up: the first render, a
\* scheduled re-render, the completion of a stop and the then-callback on it
ProgressStep ==
  \/ Mount
  \/ Render
  \/ \E c \in InFlight : StopDone(c)
  \/ \E c \in InFlight : ThenSetWaveform(c)

FairSpec == Spec /\ WF_vars(ProgressStep)

\* ================================================================ claims
Live == wavesurferRef # 0 /\ inst[wavesurferRef].status = "live"

\* nothing is pending: no call in flight, no render scheduled
Settled == phase = "mounted" /\ rendered = State /\ calls = EmptyBag

PendingCalls ==
  BagCardinality([c \in {d \in InFlight : d.phase = "pending"} |-> calls[c]])

ThemeStep == last'.op = "clickTheme"

\* C1: after a style change made while recording has settled (and the user has
\* pressed nothing since), recording has resumed on the new instance:
\* isRecording is true and the live instance's plugin is capturing.
C1_ResumesAfterStyleChange ==
  (Settled /\ hist.resumeDue) => (isRecording /\ Live /\ inst[wavesurferRef].capturing)

\* C2: when an invocation of stopRecording has just completed, isRecording is
\* false and the plugin it stopped is not capturing, whatever else is in flight.
C2_StopResolvesFalse ==
  last.op = "stopDone" => (isRecording = FALSE /\ ~inst[last.inst].capturing)

C2_Witness ==
  /\ last.op = "stopDone"
  /\ \E c \in InFlight : c.kind = "start"
  /\ ~isRecording

\* C3: a rejected startRecording shows exactly the destructive "Permission
\* denied" toast, throws nothing further, and leaves isRecording as it was.
C3_DenialLeavesState ==
  /\ [](last.op = "startDenied" =>
          (last.toasts = <<PermissionDenied>> /\ ~last.uncaught))
  /\ [][last'.op = "startDenied" => isRecording' = isRecording]_vars

C3_Witness ==
  /\ last.op = "startDenied"
  /\ last.toasts = <<PermissionDenied>>
  /\ ~isRecording
  /\ calls = EmptyBag

\* C4: a resolved startRecording sets isRecording and shows exactly one
\* "Recording started" toast; isRecording turns true, and the toast appears,
\* only in the step in which a pending plugin startRecording resolves.
C4_GrantSetsRecording ==
  /\ [](last.op = "startGranted" =>
          (isRecording /\ last.toasts = <<RecordingStarted>>
             /\ inst[last.inst].capturing))
  /\ [][((~isRecording /\ isRecording')
           \/ (\E k \in 1 .. Len(last'.toasts) : last'.toasts[k] = RecordingStarted))
         => \E c \in InFlight : /\ c.kind = "start"
                                /\ calls' = Settle(c)
                                /\ inst'[c.inst].capturing]_vars

C4_Witness ==
  /\ last.op = "startGranted"
  /\ isRecording
  /\ last.toasts = <<RecordingStarted>>

\* C5: a theme selection, with the render and theme effect it causes, leaves
\* both refs and every instance's existence untouched (nothing is created or
\* destroyed); it recolours the existing instance.
C5_ThemeKeepsInstance ==
  /\ [][ThemeStep =>
          /\ wavesurferRef' = wavesurferRef
          /\ recordRef' = recordRef
          /\ \A i \in InstIds : /\ inst'[i].status = inst[i].status
                                /\ inst'[i].destroys = inst[i].destroys]_vars
  /\ []((last.op = "clickTheme" /\ Live) =>
          inst[wavesurferRef].waveColor = visualizerThemes[rendered.currentTheme].waveColor)

C5_Witness ==
  /\ last.op = "clickTheme"
  /\ Live
  /\ rendered.currentTheme = "sunset"
  /\ inst[wavesurferRef].waveColor = "#F97316"

\* C6: a theme selection, with its render and effect, leaves isRecording and every plugin's
\* capturing flag unchanged and issue or settle no plugin call.
C6_ThemeKeepsRecording ==
  [][ThemeStep =>
       /\ isRecording' = isRecording
       /\ calls' = calls
       /\ \A i \in InstIds : inst'[i].capturing = inst[i].capturing]_vars

C6_Witness ==
  /\ last.op = "clickTheme"
  /\ isRecording
  /\ Live
  /\ inst[wavesurferRef].capturing
  /\ rendered.currentTheme = "neon"

\* C7: at most one instance is live at any time, while mounted it is the one
\* wavesurferRef holds, and after unmount none is live.
C7_Teardown ==
  /\ Cardinality(LiveInsts) <= 1
  /\ phase = "mounted" => LiveInsts = {wavesurferRef}
  /\ phase = "unmounted" => LiveInsts = {}

C7_Witness ==
  /\ phase = "unmounted"
  /\ Cardinality({i \in InstIds : inst[i].status = "destroyed"}) >= 2

\* C8: at most one plugin call issued by the panel is in flight at any time.
C8_OneCallInFlight == PendingCalls <= 1

StatusChanged == \E i \in InstIds : inst'[i].status # inst[i].status

\* C9 (as claimed): no instance is destroyed while a stop issued by
\* handleWaveformChange on its plugin is still pending, and a style click made
\* while recording leaves currentWaveform alone until that stop has completed.
C9_NeverDestroyedWhileStopPending ==
  /\ \A c \in InFlight :
       (c.kind = "styleStop" /\ c.phase = "pending") => inst[c.inst].status = "live"
  /\ last.op = "clickStyleStop" => currentWaveform = rendered.currentWaveform

\* C9 (amended): for each style click made while recording, the order of its
\* own events is fixed: the click changes nothing but issues the stop; the
\* stop's completion sets isRecording false and changes neither currentWaveform
\* nor any instance; currentWaveform changes only in a direct click made while
\* not recording or in the then-callback of a completed stop; and an instance
\* is created or destroyed only by mount, unmount or a render that commits a
\* changed currentWaveform (so an instance whose stop is still pending can be
\* destroyed, but only by unmount or by the recreation of another style click).
C9_StopThenStyleThenRecreate ==
  /\ [](last.op = "clickStyleStop" => currentWaveform = rendered.currentWaveform)
  /\ [][currentWaveform' # currentWaveform =>
          \/ (last'.op = "clickStyle" /\ ~rendered.isRecording)
          \/ \E c \in InFlight : /\ c.kind = "styleStop"
                                 /\ c.phase = "then"
                                 /\ c.type = currentWaveform'
                                 /\ calls' = Settle(c)]_vars
  /\ [][last'.op = "stopDone" =>
          /\ isRecording' = FALSE
          /\ currentWaveform' = currentWaveform
          /\ wavesurferRef' = wavesurferRef
          /\ ~StatusChanged]_vars
  /\ [][StatusChanged =>
          /\ last'.op \in {"mount", "unmount", "renderStyle", "clickStyle"}
          /\ last'.op \in {"renderStyle", "clickStyle"} =>
               (rendered'.currentWaveform # rendered.currentWaveform
                  /\ rendered'.currentWaveform = currentWaveform')]_vars

C9_Witness ==
  /\ last.op = "renderStyle"
  /\ hist.resumeDue
  /\ ~isRecording
  /\ inst[1].status = "destroyed"
  /\ Live

C11_RestartFailureClearsRecording ==
  /\ [](last.op = "restartDenied" => (~isRecording /\ last.toasts = <<>>))
  /\ [][last'.op = "restartDenied" =>
          /\ wavesurferRef' = wavesurferRef
          /\ recordRef' = recordRef
          /\ inst' = inst]_vars

C11_Witness ==
  /\ last.op = "restartDenied"
  /\ last.inst = wavesurferRef
  /\ Live
  /\ ~isRecording
  /\ rendered.isRecording

\* C12: while the panel is mounted and no plugin call is in flight,
\* isRecording is true exactly when the plugin of the live instance is
\* capturing.
C12_RecordingMirrorsPlugin ==
  (phase = "mounted" /\ calls = EmptyBag) =>
    (isRecording <=> (Live /\ inst[wavesurferRef].capturing))

\* C13: in every settled state the live instance's wave and progress colours
\* are those of visualizerThemes[currentTheme], also for an instance that a
\* style change recreated.
C13_LiveInstanceShowsTheme ==
  (Settled /\ Live) =>
    /\ inst[wavesurferRef].waveColor = visualizerThemes[currentTheme].waveColor
    /\ inst[wavesurferRef].progressColor
         = visualizerThemes[currentTheme].progressColor

C13_Witness ==
  /\ Settled
  /\ Live
  /\ last.op = "clickStyle"
  /\ inst[1].status = "destroyed"
  /\ currentTheme = "sunset"
  /\ inst[wavesurferRef].waveColor = "#F97316"
  /\ inst[wavesurferRef].progressColor = "#D946EF"

\* C14: destroy() is called at most once on any instance, and every click
\* handler that uses an instance or its plugin (setOptions, startRecording,
\* stopRecording) uses one that has not been destroyed.
C14_DestroyedOnceNeverReused ==
  /\ \A i \in InstIds : inst[i].destroys <= 1
  /\ last.op \in {"clickStart", "clickStop", "clickStyleStop", "clickTheme"} =>
       (last.inst # 0 /\ inst[last.inst].status = "live")

====
